---- MODULE Spec2Model ----
(***************************************************************************)
(* dnstxtjwt: a JWT carried in DNS TXT records.                            *)
(*                                                                         *)
(*   CreateRecord / create.split   the encoder (chunk splitter)            *)
(*   reassemble / getIndexInt      the decoder                             *)
(*   New / Fetcher.Fetch           configuration and the bounded fetch     *)
(*                                                                         *)
(* A Go string is a sequence of one-character strings, so that formatting  *)
(* an index, splitting on ':' and trimming white space are computed on the *)
(* characters.  A nil slice is the empty sequence.                         *)
(***************************************************************************)
EXTENDS Integers, Sequences, FiniteSets, TLC

VARIABLES
    \* CreateRecord and create.split (content level)
    jwt,        \* the argument of CreateRecord
    opts,       \* the CreateOption arguments of CreateRecord
    c,          \* the create struct: maxSize, maxLineLength
    buf,        \* split: the bytes not yet framed
    idx,        \* split: the loop counter
    result,     \* split: the frames built so far
    n,          \* split: the sum of the frame lengths
    pc,         \* where the CreateRecord call is
    ret,        \* what CreateRecord returned: lines, err
    \* reassemble
    lines,      \* the argument of the reassemble call
    txt,        \* the string reassemble returned
    dropped,    \* the position of the frame lost before reassembly (0: none)
    base,       \* the list of lines a variant list is derived from
    baseTxt,    \* reassemble(base)
    variant,    \* how lines was derived from base
    extra,      \* the line inserted into base
    \* CreateRecord and create.split on the lengths alone
    jwtLen,     \* len(jwt)
    optsN,      \* the CreateOption arguments
    cN,         \* the create struct
    bufLen,     \* split: len(buf)
    idxN,       \* split: the loop counter
    resultLen,  \* split: len(result)
    nN,         \* split: n
    longest,    \* the length of the longest frame appended to result
    pcN,        \* where the call is
    errN,       \* the error CreateRecord returned
    \* New
    newOpts,    \* the FetcherOption arguments of New
    newRet,     \* what New returned: fetcher, err
    npc,        \* where the New call is
    \* Fetcher.Fetch, Fetcher.fetch and Fetcher.verify
    r,          \* the Fetcher: fqdn, resolver, timeout, opts
    parentErr,  \* Err() of the context the caller passed to Fetch
    ctx,        \* fetch: its ctx variable: derived (WithTimeout), err
    fpc,        \* where the Fetch call is
    gpc,        \* where the goroutine fetch started is
    lookups,    \* the number of calls of resolver.LookupTXT
    answer,     \* what LookupTXT returned: lines, err
    early,      \* LookupTXT returned before the deadline of ctx elapsed
    flines,     \* Fetch: the lines fetch returned
    ftxt,       \* Fetch: the string reassemble returned
    stages,     \* the stages of Fetch that ran
    out,        \* what Fetch returned: token, payload, err
    \* Fetch calls that run concurrently on one Fetcher
    shared,     \* the Fetcher the calls share
    backing,    \* the array under shared.opts, cap(shared.opts) long
    cpc,        \* where each call is
    copts,      \* verify of each call: its opts slice: inPlace, own
    parsedOpts, \* the options jwt.Parse of each call received
    wrote,      \* the memory locations each call wrote
    readLoc     \* the memory locations each call read

codecVars == <<jwt, opts, c, buf, idx, result, n, pc, ret>>
reasmVars == <<lines, txt, dropped, base, baseTxt, variant, extra>>
lenVars == <<jwtLen, optsN, cN, bufLen, idxN, resultLen, nN, longest, pcN, errN>>
newVars == <<newOpts, newRet, npc>>
fetchVars == <<r, parentErr, ctx, fpc, gpc, lookups, answer, early, flines, ftxt,
               stages, out>>
concVars == <<shared, backing, cpc, copts, parsedOpts, wrote, readLoc>>
fetcherVars == <<newVars, fetchVars, concVars>>
vars == <<codecVars, reasmVars, lenVars, fetcherVars>>

----------------------------------------------------------------------------
(* Bounds of the model *)

\* the longest payload whose contents are enumerated
MaxLen == 3
\* split iterations explored before a loop that no longer consumes is cut off
MaxIter == 1100
\* frame loss is explored for records of at most this many frames
MaxLossFrames == 6
\* the same cut-off where only the lengths are followed
MaxIterLen == 10100
\* the longest list of lines given to reassemble directly
MaxLines == 3
\* the longest payload followed by its length: the shortest one whose frames
\* pass index 9999 at a line length of 6
HugeLen == 11101
\* the longest sequence of options New is called with
MaxOpts == 3
\* the Fetch calls that run concurrently on one Fetcher
NumCalls == 2
\* the most WithParseOptions options the shared Fetcher is built with
MaxParseCalls == 3

----------------------------------------------------------------------------
(* Strings *)

RECURSIVE SeqsUpTo(_, _)
\* all sequences over S of length at most k
SeqsUpTo(S, k) ==
    IF k = 0 THEN { << >> }
    ELSE LET shorter == SeqsUpTo(S, k - 1)
         IN  shorter \cup { Append(s, x) : s \in shorter, x \in S }

\* a string of k bytes x
Repeat(x, k) == [i \in 1..k |-> x]

\* s without its element at position k
RemoveAt(s, k) == SubSeq(s, 1, k - 1) \o SubSeq(s, k + 1, Len(s))

\* s with x inserted so that it becomes the element at position k
InsertAt(s, k, x) == SubSeq(s, 1, k - 1) \o <<x>> \o SubSeq(s, k, Len(s))

DigitChars == <<"0", "1", "2", "3", "4", "5", "6", "7", "8", "9">>

IsDigit(ch) == \E d \in 1..10 : DigitChars[d] = ch

\* int(c - '0')
DigitVal(ch) == (CHOOSE d \in 1..10 : DigitChars[d] = ch) - 1

\* unicode.IsSpace on the characters of the model's alphabet
IsSpace(ch) == ch \in {" ", "\t", "\n", "\r"}

RECURSIVE Itoa(_)
\* the decimal digits of k >= 0
Itoa(k) ==
    IF k < 10 THEN <<DigitChars[k + 1]>>
    ELSE Itoa(k \div 10) \o <<DigitChars[(k % 10) + 1]>>

\* fmt.Sprintf("%02d", k): at least two digits, zero padded
Sprintf02d(k) ==
    LET d == Itoa(k) IN IF Len(d) < 2 THEN <<"0">> \o d ELSE d

\* fmt.Sprintf("%02d:%s", k, s)
FormatLine(k, s) == Sprintf02d(k) \o <<":">> \o s

\* strings.TrimSpace: s from its first to its last character that is no space
TrimSpace(s) ==
    LET kept == { i \in 1..Len(s) : ~IsSpace(s[i]) }
    IN  IF kept = {} THEN << >>
        ELSE SubSeq(s, CHOOSE i \in kept : \A j \in kept : i <= j,
                       CHOOSE i \in kept : \A j \in kept : i >= j)

\* strings.Split(s, sep) for a separator of one character: the segments
\* between the separators, one more than there are separators
StringsSplit(s, sep) ==
    LET at == { i \in 1..Len(s) : s[i] = sep }
        \* the position of the k-th separator; 0 and Len(s) + 1 bound the string
        pos(k) == IF k = 0 THEN 0
                  ELSE IF k > Cardinality(at) THEN Len(s) + 1
                  ELSE CHOOSE i \in at : Cardinality({ j \in at : j < i }) = k - 1
    IN  [k \in 1..(Cardinality(at) + 1) |->
            SubSeq(s, pos(k - 1) + 1, pos(k) - 1)]

----------------------------------------------------------------------------
(* Errors *)

NilError == [msg |-> "<nil>", wraps |-> << >>]
ErrInvalidJWT == [msg |-> "invalid JWT", wraps |-> << >>]
ErrInvalidInput == [msg |-> "invalid input", wraps |-> << >>]

----------------------------------------------------------------------------
(* The encoder: CreateOption, create.split, CreateRecord *)

NilOption == [opt |-> "nil", arg |-> 0]
WithMaxLineLength(length) == [opt |-> "WithMaxLineLength", arg |-> length]
WithMaxSize(size) == [opt |-> "WithMaxSize", arg |-> size]

\* the longest line WithMaxLineLength accepts, and its default
MaxLineLengthLimit == 254
\* the largest size WithMaxSize accepts
MaxSizeLimit == 65270
DefaultMaxSize == 15 * 1024

\* createOptionFunc.apply: the closure of WithMaxLineLength or WithMaxSize
ApplyCreateOption(cc, o) ==
    IF o.opt = "WithMaxLineLength"
    THEN [cc EXCEPT !.maxLineLength =
             IF o.arg <= 0 \/ o.arg > MaxLineLengthLimit
             THEN MaxLineLengthLimit ELSE o.arg]
    ELSE [cc EXCEPT !.maxSize =
             IF o.arg <= 0 \/ o.arg > MaxSizeLimit
             THEN DefaultMaxSize ELSE o.arg]

RECURSIVE ApplyCreateOptions(_, _)
\* the loop of CreateRecord over its options: nil options are skipped
ApplyCreateOptions(cc, os) ==
    IF os = << >> THEN cc
    ELSE ApplyCreateOptions(
             IF Head(os) = NilOption THEN cc ELSE ApplyCreateOption(cc, Head(os)),
             Tail(os))

\* CreateRecord: the defaults, then the caller's options
CreateConfig(os) ==
    ApplyCreateOptions([maxSize |-> 0, maxLineLength |-> 0],
                       <<WithMaxSize(0), WithMaxLineLength(0)>> \o os)

\* ChunkRoom, had it reserved the digits of the index at hand instead of the
\* width of its bracket
ChunkRoom_ExactWidth(numFrames, maxLineLength) ==
    maxLineLength - (Len(Itoa(numFrames)) + 1)

\* the switch of split: the room for the chunk of the next frame, given the
\* number of frames built so far
ChunkRoom(numFrames, maxLineLength) ==
    IF numFrames > 999 THEN maxLineLength - Len(<<"9", "9", "9", "9", ":">>)
    ELSE IF numFrames > 99 THEN maxLineLength - Len(<<"9", "9", "9", ":">>)
    ELSE maxLineLength - Len(<<"9", "9", ":">>)

\* max, after `if len(buf) < max { max = len(buf) }`
ChunkMax(remaining, numFrames, maxLineLength) ==
    LET room == ChunkRoom(numFrames, maxLineLength)
    IN  IF remaining < room THEN remaining ELSE room

\* OverBudget, had it refused a record that fills the budget exactly
OverBudget_AtLimit(total, cc) == total >= cc.maxSize

\* the test of CreateRecord on what split returned
OverBudget(total, cc) == total > cc.maxSize

\* CreateRecord up to the call of split
CreateRecordCall ==
    /\ pc = "call"
    /\ c' = CreateConfig(opts)
    /\ buf' = jwt
    /\ idx' = 0
    /\ result' = << >>
    /\ n' = 0
    /\ pc' = "split"
    /\ UNCHANGED <<fetcherVars, jwt, opts, ret, reasmVars, lenVars>>

\* one iteration of the loop of split
SplitStep ==
    /\ pc = "split"
    /\ Len(buf) > 0
    /\ idx < MaxIter
    /\ LET max == ChunkMax(Len(buf), Len(result), c.maxLineLength)
       IN  /\ max >= 0
           /\ LET s == SubSeq(buf, 1, max)
                  line == FormatLine(idx, s)
              IN  /\ buf' = SubSeq(buf, max + 1, Len(buf))
                  /\ result' = Append(result, line)
                  /\ n' = n + Len(line)
    /\ idx' = idx + 1
    /\ UNCHANGED <<fetcherVars, jwt, opts, c, pc, ret, reasmVars, lenVars>>

\* buf[:max] with a negative max: slice bounds out of range
SplitPanic ==
    /\ pc = "split"
    /\ Len(buf) > 0
    /\ ChunkMax(Len(buf), Len(result), c.maxLineLength) < 0
    /\ pc' = "panic"
    /\ UNCHANGED <<fetcherVars, jwt, opts, c, buf, idx, result, n, ret,
                 reasmVars, lenVars>>

\* the loop of split ends; CreateRecord tests the budget and returns
CreateRecordReturn ==
    /\ pc = "split"
    /\ Len(buf) = 0
    /\ ret' = IF OverBudget(n, c)
              THEN [lines |-> << >>, err |-> ErrInvalidInput]
              ELSE [lines |-> result, err |-> NilError]
    /\ pc' = "returned"
    /\ UNCHANGED <<fetcherVars, jwt, opts, c, buf, idx, result, n, reasmVars, lenVars>>

----------------------------------------------------------------------------
(* The decoder: getIndexInt, reassemble *)

RECURSIVE IndexFrom(_, _)
\* the loop of getIndexInt over the characters of the trimmed field
IndexFrom(s, k) ==
    IF s = << >> THEN k
    ELSE IF IsDigit(Head(s)) THEN IndexFrom(Tail(s), k * 10 + DigitVal(Head(s)))
    ELSE -1

getIndexInt(s) == IndexFrom(TrimSpace(s), 0)

\* StoreLine, had it kept the first text stored at an index
StoreLine_FirstWins(parts, line) ==
    LET segments == StringsSplit(line, ":")
    IN  IF Len(segments) # 2 THEN parts
        ELSE LET k == getIndexInt(segments[1])
             IN  IF k < 0 THEN parts
                 ELSE parts @@ (k :> TrimSpace(segments[2]))

\* StoreLine, had it numbered the lines as they arrive
StoreLine_ByArrival(parts, line) ==
    LET segments == StringsSplit(line, ":")
    IN  IF Len(segments) # 2 THEN parts
        ELSE LET k == getIndexInt(segments[1])
             IN  IF k < 0 THEN parts
                 ELSE ((IF parts[0] = << >> /\ Cardinality(DOMAIN parts) = 1
                        THEN 0 ELSE Cardinality(DOMAIN parts))
                       :> TrimSpace(segments[2])) @@ parts

\* the body of the first loop of reassemble, for one line
StoreLine(parts, line) ==
    LET segments == StringsSplit(line, ":")
    IN  IF Len(segments) # 2 THEN parts
        ELSE LET k == getIndexInt(segments[1])
             IN  IF k < 0 THEN parts
                 ELSE (k :> TrimSpace(segments[2])) @@ parts

RECURSIVE CollectParts(_, _, _, _)
\* the first loop of reassemble over ls[lo..hi], in order, from the map parts.
\* The range is halved, and parts (which always holds index 0) is looked at on
\* entry, only to keep the evaluation shallow.
CollectParts(ls, lo, hi, parts) ==
    IF lo > hi \/ DOMAIN parts = {} THEN parts
    ELSE IF lo = hi THEN StoreLine(parts, ls[lo])
    ELSE LET mid == (lo + hi) \div 2
         IN  CollectParts(ls, mid + 1, hi, CollectParts(ls, lo, mid, parts))

RECURSIVE WalkParts(_, _, _, _)
\* the second loop of reassemble for i in lo..hi, in order: acc.found turns
\* FALSE at the first index that is absent
WalkParts(parts, lo, hi, acc) ==
    IF lo > hi \/ ~acc.found THEN acc
    ELSE IF lo = hi
    THEN IF lo \in DOMAIN parts
         THEN [found |-> TRUE, buf |-> acc.buf \o parts[lo]]
         ELSE [found |-> FALSE, buf |-> acc.buf]
    ELSE LET mid == (lo + hi) \div 2
         IN  WalkParts(parts, mid + 1, hi, WalkParts(parts, lo, mid, acc))

\* reassemble, had it returned what it gathered before the missing index
reassemble_Lenient(ls) ==
    WalkParts(CollectParts(ls, 1, Len(ls), (0 :> << >>)), 0, Len(ls),
              [found |-> TRUE, buf |-> << >>]).buf

reassemble(ls) ==
    LET parts == CollectParts(ls, 1, Len(ls), (0 :> << >>))
        walk == WalkParts(parts, 0, Cardinality(DOMAIN parts) - 1,
                          [found |-> TRUE, buf |-> << >>])
    IN  IF walk.found THEN walk.buf ELSE << >>

\* the record CreateRecord returned is reassembled as it is
ReassembleRecord ==
    /\ pc = "returned"
    /\ ret.err = NilError
    /\ lines' = ret.lines
    /\ dropped' = 0
    /\ txt' = reassemble(ret.lines)
    /\ pc' = "reassembled"
    /\ UNCHANGED <<fetcherVars, jwt, opts, c, buf, idx, result, n, ret, base,
                 baseTxt, variant, extra, lenVars>>

\* one frame of the record is lost before it is reassembled
ReassembleWithout(k) ==
    /\ pc = "returned"
    /\ ret.err = NilError
    /\ Len(ret.lines) <= MaxLossFrames
    /\ k \in 1..Len(ret.lines)
    /\ lines' = RemoveAt(ret.lines, k)
    /\ dropped' = k
    /\ txt' = reassemble(RemoveAt(ret.lines, k))
    /\ pc' = "reassembled"
    /\ UNCHANGED <<fetcherVars, jwt, opts, c, buf, idx, result, n, ret, base,
                 baseTxt, variant, extra, lenVars>>

----------------------------------------------------------------------------
(* The Fetcher: FetcherOption, New.  A time.Duration is counted in         *)
(* seconds.  A resolver is known by its name.                              *)

\* a nil Resolver, net.DefaultResolver, and a resolver the caller wrote
NilResolver == "nil"
DefaultResolver == "net.DefaultResolver"
CallerResolver == "resolverFunc"

\* 30 * time.Second
DefaultTimeout == 30

\* var r Fetcher
\* opts is a slice: optsCap is cap(r.opts), the length of the array under it
ZeroFetcher ==
    [fqdn |-> "", resolver |-> NilResolver, timeout |-> 0, opts |-> << >>,
     optsCap |-> 0]

\* a nil *Fetcher
NilFetcher == [nil |-> TRUE]

\* a nil FetcherOption
NilFetcherOption == [name |-> "nil", value |-> 0]

WithResolver(resolver) == [name |-> "WithResolver", value |-> resolver]
WithFQDN(fqdn) == [name |-> "WithFQDN", value |-> fqdn]
WithTimeout(timeout) == [name |-> "WithTimeout", value |-> timeout]
WithParseOptions(parseOpts) == [name |-> "WithParseOptions", value |-> parseOpts]
validateOptions == [name |-> "validateOptions", value |-> 0]

\* fmt.Errorf("%w fqdn must be set", ErrInvalidInput)
ErrFqdnMustBeSet ==
    [msg |-> "invalid input fqdn must be set", wraps |-> <<ErrInvalidInput>>]

\* errors.Join(err, ErrInvalidJWT)
ErrorsJoin(e1, e2) == [msg |-> "join", wraps |-> <<e1, e2>>]

\* errors.Is: the error, or an error it wraps, is the target
RECURSIVE ErrorsIs(_, _)

ErrorsIs(e, target) ==
    \/ e = target
    \/ \E i \in 1..Len(e.wraps) : ErrorsIs(e.wraps[i], target)

\* WithTimeout that stores the duration as given
SetTimeout_AsGiven(timeout) == timeout

\* the duration WithTimeout stores
SetTimeout(timeout) == IF timeout = 0 THEN DefaultTimeout ELSE timeout

\* the resolver WithResolver stores
SetResolver(resolver) ==
    IF resolver = NilResolver THEN DefaultResolver ELSE resolver

\* the closure validateOptions returns
ValidateFetcher(f) == IF f.fqdn = "" THEN ErrFqdnMustBeSet ELSE NilError

\* the capacity the runtime gives a slice of capacity oldCap that append
\* grows to hold needed elements: needed when that is more than twice oldCap,
\* else twice oldCap (slices below 256 elements; for the 16 byte option
\* values an allocation of up to 16 of them has no rounding up)
GrowCap(oldCap, needed) ==
    IF needed > 2 * oldCap THEN needed ELSE 2 * oldCap

\* cap(append(s, more...)) for a slice s of capacity oldCap and length len
AppendCap(oldCap, len, more) ==
    IF len + more <= oldCap THEN oldCap ELSE GrowCap(oldCap, len + more)

\* opt.apply(&r): the Fetcher after the option, and the error
ApplyFetcherOption(f, o) ==
    CASE o.name = "WithResolver" ->
            [r |-> [f EXCEPT !.resolver = SetResolver(o.value)], err |-> NilError]
      [] o.name = "WithFQDN" ->
            [r |-> [f EXCEPT !.fqdn = o.value], err |-> NilError]
      [] o.name = "WithTimeout" ->
            [r |-> [f EXCEPT !.timeout = SetTimeout(o.value)], err |-> NilError]
      [] o.name = "WithParseOptions" ->
            [r |-> [f EXCEPT !.opts = f.opts \o o.value,
                             !.optsCap = AppendCap(f.optsCap, Len(f.opts),
                                                   Len(o.value))],
             err |-> NilError]
      [] o.name = "validateOptions" ->
            [r |-> f, err |-> ValidateFetcher(f)]

\* the loop of New: a nil option is skipped, the first error ends the call
RECURSIVE ApplyFetcherOptions(_, _)

ApplyFetcherOptions(f, os) ==
    IF os = << >> THEN [fetcher |-> f, err |-> NilError]
    ELSE IF Head(os) = NilFetcherOption THEN ApplyFetcherOptions(f, Tail(os))
    ELSE LET a == ApplyFetcherOption(f, Head(os))
         IN  IF a.err # NilError THEN [fetcher |-> NilFetcher, err |-> a.err]
             ELSE ApplyFetcherOptions(a.r, Tail(os))

New(os) ==
    LET defaults == <<WithResolver(NilResolver), WithTimeout(0)>>
        vadors == <<validateOptions>>
    IN  ApplyFetcherOptions(ZeroFetcher, (defaults \o os) \o vadors)

\* fetch that attaches a deadline only past the default timeout
HasDeadline_PastDefault(f) == f.timeout > DefaultTimeout

\* fetch attaches a deadline to its context
HasDeadline(f) == f.timeout > 0

NewCall ==
    /\ npc = "call"
    /\ newRet' = New(newOpts)
    /\ npc' = "returned"
    /\ UNCHANGED <<newOpts, fetchVars, concVars, codecVars, reasmVars, lenVars>>

\* the errors of package context
Canceled == [msg |-> "context canceled", wraps |-> << >>]
DeadlineExceeded == [msg |-> "context deadline exceeded", wraps |-> << >>]

InitNewIdle ==
    /\ newOpts = << >>
    /\ newRet = [fetcher |-> NilFetcher, err |-> NilError]
    /\ npc = "idle"

InitConcIdle ==
    /\ shared = ZeroFetcher
    /\ backing = << >>
    /\ cpc = << >>
    /\ copts = << >>
    /\ parsedOpts = << >>
    /\ wrote = << >>
    /\ readLoc = << >>

InitFetchIdle ==
    /\ r = ZeroFetcher
    /\ parentErr = NilError
    /\ ctx = [derived |-> FALSE, err |-> NilError]
    /\ fpc = "idle"
    /\ gpc = "none"
    /\ lookups = 0
    /\ answer = [lines |-> << >>, err |-> NilError]
    /\ early = FALSE
    /\ flines = << >>
    /\ ftxt = << >>
    /\ stages = {}
    /\ out = [token |-> "nil", payload |-> "nil", err |-> NilError]

----------------------------------------------------------------------------
(* SpecCodec: CreateRecord on enumerated payloads and budgets, and the     *)
(* reassembly of what it returned                                          *)

Alphabet == {"a", "b", ":", " "}

ShortPayloads == SeqsUpTo(Alphabet, MaxLen)

\* a payload of k bytes, alternately a and b
Pattern(k) == [i \in 1..k |-> IF i % 2 = 1 THEN "a" ELSE "b"]

\* long enough for a frame past index 1000 at a line length of 6
LongLen == 2102

LongPayloads == { Pattern(202), Pattern(LongLen) }

LineLengthArgs == {-1, 0, 1, 2, 3, 4, 5, 6, 7, 254, 255}

SizeArgs == {0, 1, 5, 8, 12, 65270, 65271}

ShortOptionLists ==
    { << >>, <<NilOption>>,
      <<WithMaxLineLength(4), NilOption, WithMaxLineLength(7)>>,
      <<WithMaxSize(5), WithMaxSize(0)>> }
    \cup { <<WithMaxLineLength(l)>> : l \in LineLengthArgs }
    \cup { <<WithMaxSize(s)>> : s \in SizeArgs }
    \cup { <<WithMaxSize(s), WithMaxLineLength(l)>> :
               s \in SizeArgs, l \in LineLengthArgs }

LongOptionLists ==
    { <<WithMaxLineLength(l)>> : l \in {3, 4, 5, 6, 7, 254} }
    \cup { <<WithMaxSize(6000), WithMaxLineLength(6)>> }

InitReasmIdle ==
    /\ lines = << >>
    /\ txt = << >>
    /\ dropped = 0
    /\ base = << >>
    /\ baseTxt = << >>
    /\ variant = "idle"
    /\ extra = << >>

InitLenIdle ==
    /\ jwtLen = 0
    /\ optsN = << >>
    /\ cN = [maxSize |-> 0, maxLineLength |-> 0]
    /\ bufLen = 0
    /\ idxN = 0
    /\ resultLen = 0
    /\ nN = 0
    /\ longest = 0
    /\ pcN = "idle"
    /\ errN = NilError

InitCodecIdle ==
    /\ jwt = << >>
    /\ opts = << >>
    /\ c = [maxSize |-> 0, maxLineLength |-> 0]
    /\ buf = << >>
    /\ idx = 0
    /\ result = << >>
    /\ n = 0
    /\ pc = "idle"
    /\ ret = [lines |-> << >>, err |-> NilError]

InitCodec ==
    /\ \/ jwt \in ShortPayloads /\ opts \in ShortOptionLists
       \/ jwt \in LongPayloads /\ opts \in LongOptionLists
    /\ c = [maxSize |-> 0, maxLineLength |-> 0]
    /\ buf = << >>
    /\ idx = 0
    /\ result = << >>
    /\ n = 0
    /\ pc = "call"
    /\ ret = [lines |-> << >>, err |-> NilError]
    /\ InitReasmIdle
    /\ InitLenIdle
    /\ InitNewIdle
    /\ InitFetchIdle
    /\ InitConcIdle

NextCodec ==
    \/ CreateRecordCall
    \/ SplitStep
    \/ SplitPanic
    \/ CreateRecordReturn
    \/ ReassembleRecord
    \/ \E k \in 1..MaxLossFrames : ReassembleWithout(k)

SpecCodec == InitCodec /\ [][NextCodec]_vars

----------------------------------------------------------------------------
(* SpecReassemble: reassemble on enumerated lists of lines, as a resolver  *)
(* may deliver them: in any order, with malformed lines among them         *)

CandidateLines ==
    { <<"0", "0", ":", "a">>,
      <<"0", "1", ":", "b">>,
      <<"1", ":", "c">>,
      <<"0", "2", ":", "d">>,
      <<" ", "0", " ", ":", " ", "e", " ">>,
      <<":", "x">>,
      <<"x", ":", "a">>,
      <<"0", ":", "a", ":", "b">>,
      <<"a", "b">> }

\* the list ls in the order p, a permutation of its positions
Permuted(ls, p) == [i \in 1..Len(ls) |-> ls[p[i]]]

\* reassemble on the list as given
ReassembleBase ==
    /\ variant = "none"
    /\ lines' = base
    /\ txt' = reassemble(base)
    /\ baseTxt' = reassemble(base)
    /\ variant' = "base"
    /\ UNCHANGED <<fetcherVars, base, dropped, extra, codecVars, lenVars>>

\* reassemble on the list in another order
ReassemblePermuted(p) ==
    /\ variant = "base"
    /\ lines' = Permuted(base, p)
    /\ txt' = reassemble(Permuted(base, p))
    /\ variant' = "permuted"
    /\ UNCHANGED <<fetcherVars, base, baseTxt, dropped, extra, codecVars, lenVars>>

\* reassemble on the list with the line m inserted at position k
ReassembleInserted(m, k) ==
    /\ variant = "base"
    /\ k \in 1..(Len(base) + 1)
    /\ lines' = InsertAt(base, k, m)
    /\ txt' = reassemble(InsertAt(base, k, m))
    /\ extra' = m
    /\ variant' = "inserted"
    /\ UNCHANGED <<fetcherVars, base, baseTxt, dropped, codecVars, lenVars>>

InitReassemble ==
    /\ base \in SeqsUpTo(CandidateLines, MaxLines)
    /\ lines = << >>
    /\ txt = << >>
    /\ dropped = 0
    /\ baseTxt = << >>
    /\ variant = "none"
    /\ extra = << >>
    /\ InitCodecIdle
    /\ InitLenIdle
    /\ InitNewIdle
    /\ InitFetchIdle
    /\ InitConcIdle

NextReassemble ==
    \/ ReassembleBase
    \/ \E p \in Permutations(1..Len(base)) : ReassemblePermuted(p)
    \/ \E m \in CandidateLines, k \in 1..(MaxLines + 1) : ReassembleInserted(m, k)

SpecReassemble == InitReassemble /\ [][NextReassemble]_vars

----------------------------------------------------------------------------
(* SpecSplitLen: CreateRecord followed on the lengths alone.  The loop of  *)
(* split reads only len(buf), len(result) and idx, never the bytes, so a   *)
(* payload of many thousand bytes is followed by its length; the frame is  *)
(* still formatted, from idx and a chunk of max bytes, to take its length. *)

\* len(line) for line := fmt.Sprintf("%02d:%s", idx, s) with len(s) = chunkLen
LineLen(k, chunkLen) == Len(FormatLine(k, Repeat("a", chunkLen)))

CreateRecordCallN ==
    /\ pcN = "call"
    /\ cN' = CreateConfig(optsN)
    /\ bufLen' = jwtLen
    /\ idxN' = 0
    /\ resultLen' = 0
    /\ nN' = 0
    /\ pcN' = "split"
    /\ UNCHANGED <<fetcherVars, jwtLen, optsN, longest, errN, codecVars, reasmVars>>

SplitStepN ==
    /\ pcN = "split"
    /\ bufLen > 0
    /\ idxN < MaxIterLen
    /\ LET max == ChunkMax(bufLen, resultLen, cN.maxLineLength)
       IN  /\ max >= 0
           /\ bufLen' = bufLen - max
           /\ resultLen' = resultLen + 1
           /\ nN' = nN + LineLen(idxN, max)
           /\ longest' = IF LineLen(idxN, max) > longest
                         THEN LineLen(idxN, max) ELSE longest
    /\ idxN' = idxN + 1
    /\ UNCHANGED <<fetcherVars, jwtLen, optsN, cN, pcN, errN, codecVars, reasmVars>>

SplitPanicN ==
    /\ pcN = "split"
    /\ bufLen > 0
    /\ ChunkMax(bufLen, resultLen, cN.maxLineLength) < 0
    /\ pcN' = "panic"
    /\ UNCHANGED <<fetcherVars, jwtLen, optsN, cN, bufLen, idxN, resultLen, nN, longest,
                   errN, codecVars, reasmVars>>

CreateRecordReturnN ==
    /\ pcN = "split"
    /\ bufLen = 0
    /\ errN' = IF OverBudget(nN, cN) THEN ErrInvalidInput ELSE NilError
    /\ pcN' = "returned"
    /\ UNCHANGED <<fetcherVars, jwtLen, optsN, cN, bufLen, idxN, resultLen, nN, longest,
                   codecVars, reasmVars>>

PayloadLens == (0..12) \cup {201, 2101, HugeLen}

LenOptionLists ==
    { <<WithMaxSize(s), WithMaxLineLength(l)>> :
          s \in {0, 65270}, l \in (1..8) \cup {254} }

InitSplitLen ==
    /\ jwtLen \in PayloadLens
    /\ optsN \in LenOptionLists
    /\ cN = [maxSize |-> 0, maxLineLength |-> 0]
    /\ bufLen = 0
    /\ idxN = 0
    /\ resultLen = 0
    /\ nN = 0
    /\ longest = 0
    /\ pcN = "call"
    /\ errN = NilError
    /\ InitCodecIdle
    /\ InitReasmIdle
    /\ InitNewIdle
    /\ InitFetchIdle
    /\ InitConcIdle

NextSplitLen ==
    \/ CreateRecordCallN
    \/ SplitStepN
    \/ SplitPanicN
    \/ CreateRecordReturnN

SpecSplitLen == InitSplitLen /\ [][NextSplitLen]_vars

\* C2: line-length bound: every frame of a sequence CreateRecord returns is at
\* most maxLineLength long, whatever the index of the frame
C2_LineLengthBound ==
    (pcN = "returned" /\ errN = NilError) => longest <= cN.maxLineLength

----------------------------------------------------------------------------
(* SpecNew: New on enumerated sequences of options *)

FetcherOptionArgs ==
    { NilFetcherOption,
      WithFQDN(""), WithFQDN("fqdn.example.org"),
      WithResolver(NilResolver), WithResolver(CallerResolver),
      WithTimeout(-1), WithTimeout(0), WithTimeout(2),
      WithParseOptions(<<"WithKeyProvider">>) }

InitNew ==
    /\ newOpts \in SeqsUpTo(FetcherOptionArgs, MaxOpts)
    /\ newRet = [fetcher |-> NilFetcher, err |-> NilError]
    /\ npc = "call"
    /\ InitFetchIdle
    /\ InitConcIdle
    /\ InitCodecIdle
    /\ InitReasmIdle
    /\ InitLenIdle

NextNew == NewCall

SpecNew == InitNew /\ [][NextNew]_vars

----------------------------------------------------------------------------
(* SpecFetch: Fetcher.Fetch with the goroutine fetch starts, the resolver, *)
(* the timer of the derived context, the caller cancelling its context,    *)
(* and the token parser.  The resolver and the parser are the environment: *)
(* LookupTXT returns any answer at any time or never, jwt.Parse and        *)
(* jws.Parse accept or reject a non-empty input, jwt.Parse rejects the     *)
(* empty input.                                                            *)

\* errors.New("resolver error")
ErrResolver == [msg |-> "resolver error", wraps |-> << >>]

\* the error of jwt.Parse or jws.Parse
ErrParse == [msg |-> "failed to parse token", wraps |-> << >>]

NilResult == [token |-> "nil", payload |-> "nil", err |-> NilError]

\* the TXT records a resolver answers with
TxtAnswers ==
    { << >>,
      << <<"0", "0", ":", "a">> >>,
      << <<"0", "1", ":", "b">>, <<"0", "0", ":", "a">> >>,
      << <<"0", "0", ":", "a">>, <<"0", "2", ":", "c">> >> }

\* what LookupTXT may return when the context has the error e
ResolverAnswers(e) ==
    { [lines |-> ls, err |-> NilError] : ls \in TxtAnswers }
    \cup { [lines |-> << >>, err |-> ErrResolver],
           [lines |-> << <<"0", "0", ":", "a">> >>, err |-> ErrResolver] }
    \cup (IF e = NilError THEN {} ELSE { [lines |-> << >>, err |-> e] })

\* the deferred cancel of fetch, which runs when a deadline was attached
DeferredCancel(cx) ==
    IF cx.derived /\ cx.err = NilError THEN [cx EXCEPT !.err = Canceled] ELSE cx

\* verify that returns the error of the parser as it is
VerifyError_Bare(err) == err

\* the error verify returns when the parser rejects
VerifyError(err) == ErrorsJoin(err, ErrInvalidJWT)

\* Fetch calls fetch: a deadline is attached to the context when the timeout
\* is positive, the channels are made and the goroutine is started
FetchEnter ==
    /\ fpc = "call"
    /\ ctx' = [derived |-> HasDeadline(r), err |-> parentErr]
    /\ gpc' = "start"
    /\ fpc' = "select"
    /\ UNCHANGED <<r, parentErr, lookups, answer, early, flines, ftxt, stages,
                   out, newVars, concVars, codecVars, reasmVars,
                   lenVars>>

\* the goroutine calls r.resolver.LookupTXT
GoLookup ==
    /\ gpc = "start"
    /\ lookups' = lookups + 1
    /\ gpc' = "lookup"
    /\ UNCHANGED <<r, parentErr, ctx, fpc, answer, early, flines, ftxt, stages,
                   out, newVars, concVars, codecVars, reasmVars,
                   lenVars>>

\* LookupTXT returns v; the goroutine goes to its send on errChan or txtChan
LookupReturn(v) ==
    /\ gpc = "lookup"
    /\ v \in ResolverAnswers(ctx.err)
    /\ answer' = v
    /\ early' = ~(ctx.derived /\ ctx.err = DeadlineExceeded)
    /\ gpc' = IF v.err # NilError THEN "sendErr" ELSE "sendTxt"
    /\ UNCHANGED <<r, parentErr, ctx, fpc, lookups, flines, ftxt, stages, out,
                   newVars, concVars, codecVars, reasmVars,
                   lenVars>>

\* the timer of context.WithTimeout fires while fetch waits
DeadlineElapse ==
    /\ fpc = "select"
    /\ ctx.derived
    /\ ctx.err = NilError
    /\ ctx' = [ctx EXCEPT !.err = DeadlineExceeded]
    /\ UNCHANGED <<r, parentErr, fpc, gpc, lookups, answer, early, flines, ftxt,
                   stages, out, newVars, concVars, codecVars, reasmVars,
                   lenVars>>

\* the caller cancels the context it passed to Fetch
ParentCancel ==
    /\ fpc \in {"select", "reassemble", "verify"}
    /\ parentErr = NilError
    /\ parentErr' = Canceled
    /\ ctx' = IF ctx.err = NilError THEN [ctx EXCEPT !.err = Canceled] ELSE ctx
    /\ UNCHANGED <<r, fpc, gpc, lookups, answer, early, flines, ftxt, stages,
                   out, newVars, concVars, codecVars, reasmVars,
                   lenVars>>

\* select: case lines := <-txtChan
SelectTxt ==
    /\ fpc = "select"
    /\ gpc = "sendTxt"
    /\ flines' = answer.lines
    /\ gpc' = "done"
    /\ ctx' = DeferredCancel(ctx)
    /\ fpc' = "reassemble"
    /\ UNCHANGED <<r, parentErr, lookups, answer, early, ftxt, stages, out,
                   newVars, concVars, codecVars, reasmVars,
                   lenVars>>

\* select: case err := <-errChan; Fetch returns the error
SelectErr ==
    /\ fpc = "select"
    /\ gpc = "sendErr"
    /\ out' = [NilResult EXCEPT !.err = answer.err]
    /\ gpc' = "done"
    /\ ctx' = DeferredCancel(ctx)
    /\ fpc' = "returned"
    /\ UNCHANGED <<r, parentErr, lookups, answer, early, flines, ftxt, stages,
                   newVars, concVars, codecVars, reasmVars,
                   lenVars>>

\* fetch that reports every done context as cancelled
DoneResult_Canceled(cx) == [NilResult EXCEPT !.err = Canceled]

\* return nil, ctx.Err(), as Fetch hands it on
DoneResult(cx) == [NilResult EXCEPT !.err = cx.err]

\* select: case <-ctx.Done(); Fetch returns ctx.Err()
SelectDone ==
    /\ fpc = "select"
    /\ ctx.err # NilError
    /\ out' = DoneResult(ctx)
    /\ fpc' = "returned"
    /\ UNCHANGED <<r, parentErr, ctx, gpc, lookups, answer, early, flines, ftxt,
                   stages, newVars, concVars, codecVars, reasmVars,
                   lenVars>>

\* the select of fetch takes one of the cases that are ready
FetchSelect == SelectTxt \/ SelectErr \/ SelectDone

\* txt := reassemble(lines)
FetchReassemble ==
    /\ fpc = "reassemble"
    /\ ftxt' = reassemble(flines)
    /\ stages' = stages \cup {"reassemble"}
    /\ fpc' = "verify"
    /\ UNCHANGED <<r, parentErr, ctx, gpc, lookups, answer, early, flines, out,
                   newVars, concVars, codecVars, reasmVars,
                   lenVars>>

\* what the parser may make of txt: a token, or the rejection by jwt.Parse
\* or by jws.Parse
ParseOutcomes(s) ==
    IF s = << >> THEN {"jwt.Parse rejects"}
    ELSE {"token", "jwt.Parse rejects", "jws.Parse rejects"}

\* r.verify(ctx, txt)
FetchVerify(p) ==
    /\ fpc = "verify"
    /\ p \in ParseOutcomes(ftxt)
    /\ stages' = stages \cup {"jwt.Parse"}
                        \cup (IF p = "jwt.Parse rejects" THEN {} ELSE {"jws.Parse"})
                        \cup (IF p = "token" THEN {} ELSE {"rejected"})
    /\ out' = IF p = "token"
              THEN [token |-> "token", payload |-> "msg.Payload()", err |-> NilError]
              ELSE [NilResult EXCEPT !.err = VerifyError(ErrParse)]
    /\ fpc' = "returned"
    /\ UNCHANGED <<r, parentErr, ctx, gpc, lookups, answer, early, flines, ftxt,
                   newVars, concVars, codecVars, reasmVars,
                   lenVars>>

\* the Fetchers New builds for the calls followed
FetchSetups ==
    { <<WithFQDN("fqdn.example.org"), WithResolver(CallerResolver), WithTimeout(t)>> :
          t \in {-1, 0, 2} }

InitFetch ==
    /\ r \in { New(os).fetcher : os \in FetchSetups }
    /\ parentErr \in {NilError, Canceled}
    /\ ctx = [derived |-> FALSE, err |-> parentErr]
    /\ fpc = "call"
    /\ gpc = "none"
    /\ lookups = 0
    /\ answer = [lines |-> << >>, err |-> NilError]
    /\ early = FALSE
    /\ flines = << >>
    /\ ftxt = << >>
    /\ stages = {}
    /\ out = NilResult
    /\ InitNewIdle
    /\ InitConcIdle
    /\ InitCodecIdle
    /\ InitReasmIdle
    /\ InitLenIdle

NextFetch ==
    \/ FetchEnter
    \/ GoLookup
    \/ \E v \in ResolverAnswers(ctx.err) : LookupReturn(v)
    \/ DeadlineElapse
    \/ ParentCancel
    \/ FetchSelect
    \/ FetchReassemble
    \/ \E p \in ParseOutcomes(ftxt) : FetchVerify(p)

\* the goroutines are scheduled, the timer fires and the parser returns; the
\* resolver need not return and the caller need not cancel
FairFetch ==
    /\ WF_vars(FetchEnter)
    /\ WF_vars(GoLookup)
    /\ WF_vars(DeadlineElapse)
    /\ WF_vars(FetchSelect)
    /\ WF_vars(FetchReassemble)
    /\ WF_vars(\E p \in ParseOutcomes(ftxt) : FetchVerify(p))

SpecFetch == InitFetch /\ [][NextFetch]_vars /\ FairFetch

----------------------------------------------------------------------------
(* SpecConcurrent: Fetch calls that run concurrently on one Fetcher.  Each *)
(* call has its own context, channels and goroutine; what the calls have   *)
(* in common is the Fetcher and the array under its opts slice.  A memory  *)
(* location is a pair: a field of the Fetcher, or an element of the array. *)

Calls == 1..NumCalls

\* jwt.WithContext(ctx) of each call
ContextOptions ==
    <<"WithContext(ctx1)", "WithContext(ctx2)", "WithContext(ctx3)",
      "WithContext(ctx4)">>

\* an element of the array that was allocated and not yet written
ZeroOption == "nil"

FetcherFields ==
    { <<"r.fqdn", 0>>, <<"r.resolver", 0>>, <<"r.timeout", 0>>, <<"r.opts", 0>> }

ArrayElements(lo, hi) == { <<"array", k>> : k \in lo..hi }

\* Fetch calls r.fetch, whose value receiver copies the Fetcher; the lookup
\* delivers lines and they are reassembled
ConcFetch(i) ==
    /\ cpc[i] = "call"
    /\ readLoc' = [readLoc EXCEPT ![i] = @ \cup FetcherFields]
    /\ cpc' = [cpc EXCEPT ![i] = "verify"]
    /\ UNCHANGED <<shared, backing, copts, parsedOpts, wrote, newVars,
                   fetchVars, codecVars, reasmVars, lenVars>>

\* the same call, when fetch returns an error
ConcFetchFails(i) ==
    /\ cpc[i] = "call"
    /\ readLoc' = [readLoc EXCEPT ![i] = @ \cup FetcherFields]
    /\ cpc' = [cpc EXCEPT ![i] = "failed"]
    /\ UNCHANGED <<shared, backing, copts, parsedOpts, wrote, newVars,
                   fetchVars, codecVars, reasmVars, lenVars>>

\* verify: opts := append(r.opts, jwt.WithContext(ctx)).  With room in the
\* array the option is written behind the last element, in place; without,
\* the elements are copied to a new array of the call
ConcAppend(i) ==
    LET len == Len(shared.opts)
    IN  /\ cpc[i] = "verify"
        /\ IF len < shared.optsCap
           THEN /\ backing' = [backing EXCEPT ![len + 1] = ContextOptions[i]]
                /\ wrote' = [wrote EXCEPT ![i] = @ \cup ArrayElements(len + 1, len + 1)]
                /\ readLoc' = [readLoc EXCEPT ![i] = @ \cup {<<"r.opts", 0>>}]
                /\ copts' = [copts EXCEPT ![i] = [inPlace |-> TRUE, own |-> << >>]]
           ELSE /\ copts' = [copts EXCEPT ![i] =
                                [inPlace |-> FALSE,
                                 own |-> Append(SubSeq(backing, 1, len),
                                                ContextOptions[i])]]
                /\ readLoc' = [readLoc EXCEPT ![i] =
                                 @ \cup {<<"r.opts", 0>>} \cup ArrayElements(1, len)]
                /\ UNCHANGED <<backing, wrote>>
        /\ cpc' = [cpc EXCEPT ![i] = "parse"]
        /\ UNCHANGED <<shared, parsedOpts, newVars, fetchVars, codecVars,
                       reasmVars, lenVars>>

\* verify: jwt.Parse(input, opts...) reads the elements of opts
ConcParse(i) ==
    LET len == Len(shared.opts)
    IN  /\ cpc[i] = "parse"
        /\ parsedOpts' = [parsedOpts EXCEPT ![i] =
                             IF copts[i].inPlace THEN SubSeq(backing, 1, len + 1)
                             ELSE copts[i].own]
        /\ readLoc' = [readLoc EXCEPT ![i] =
                          IF copts[i].inPlace
                          THEN @ \cup ArrayElements(1, len + 1)
                          ELSE @]
        /\ cpc' = [cpc EXCEPT ![i] = "returned"]
        /\ UNCHANGED <<shared, backing, copts, wrote, newVars, fetchVars,
                       codecVars, reasmVars, lenVars>>

\* the WithParseOptions calls the shared Fetcher is built with
ParseOptionArgs ==
    { WithParseOptions(<< >>),
      WithParseOptions(<<"WithKeyProvider">>),
      WithParseOptions(<<"WithKeyProvider", "WithValidate">>) }

ConcurrentSetups ==
    { <<WithFQDN("fqdn.example.org")>> \o ps :
          ps \in SeqsUpTo(ParseOptionArgs, MaxParseCalls) }

\* the array under f.opts: its elements, then the room append left
BackingArray(f) ==
    [k \in 1..f.optsCap |-> IF k <= Len(f.opts) THEN f.opts[k] ELSE ZeroOption]

InitConcurrent ==
    /\ shared \in { New(os).fetcher : os \in ConcurrentSetups }
    /\ backing = BackingArray(shared)
    /\ cpc = [i \in Calls |-> "call"]
    /\ copts = [i \in Calls |-> [inPlace |-> FALSE, own |-> << >>]]
    /\ parsedOpts = [i \in Calls |-> << >>]
    /\ wrote = [i \in Calls |-> {}]
    /\ readLoc = [i \in Calls |-> {}]
    /\ InitNewIdle
    /\ InitFetchIdle
    /\ InitCodecIdle
    /\ InitReasmIdle
    /\ InitLenIdle

NextConcurrent ==
    \E i \in Calls :
        \/ ConcFetch(i)
        \/ ConcFetchFails(i)
        \/ ConcAppend(i)
        \/ ConcParse(i)

SpecConcurrent == InitConcurrent /\ [][NextConcurrent]_vars

\* C11: isolation of concurrent fetches: no memory location is written by
\* one call and read or written by another, and the parser of each call
\* receives the configured parse options followed by the context option of
\* that call
C11_Isolation ==
    /\ \A i \in DOMAIN cpc : \A j \in DOMAIN cpc :
          i # j => wrote[i] \cap (wrote[j] \cup readLoc[j]) = {}
    /\ \A i \in DOMAIN cpc :
          cpc[i] = "returned" =>
              parsedOpts[i] = Append(shared.opts, ContextOptions[i])

----------------------------------------------------------------------------
(* Properties of the codec *)

RECURSIVE SumLens(_, _, _)
\* the sum of the lengths of ss[lo..hi]
SumLens(ss, lo, hi) ==
    IF lo > hi THEN 0
    ELSE IF lo = hi THEN Len(ss[lo])
    ELSE LET mid == (lo + hi) \div 2
         IN  SumLens(ss, lo, mid) + SumLens(ss, mid + 1, hi)

RECURSIVE Concat(_, _, _)
\* ss[lo] \o ... \o ss[hi]
Concat(ss, lo, hi) ==
    IF lo > hi THEN << >>
    ELSE IF lo = hi THEN ss[lo]
    ELSE LET mid == (lo + hi) \div 2
         IN  Concat(ss, lo, mid) \o Concat(ss, mid + 1, hi)

\* the position of the first ':' of a line (0: none)
FirstColon(line) ==
    IF \E i \in 1..Len(line) : line[i] = ":"
    THEN CHOOSE i \in 1..Len(line) :
             line[i] = ":" /\ \A j \in 1..(i - 1) : line[j] # ":"
    ELSE 0

\* what precedes the first ':' of a frame, and what follows it
IndexField(line) == SubSeq(line, 1, FirstColon(line) - 1)
ChunkOf(line) == SubSeq(line, FirstColon(line) + 1, Len(line))

Chunks(frames) == [i \in 1..Len(frames) |-> ChunkOf(frames[i])]

HasColon(s) == \E i \in 1..Len(s) : s[i] = ":"

\* the value of a string of decimal digits, most significant first
DecimalValue(ds) ==
    LET pow[e \in 0..Len(ds)] == IF e = 0 THEN 1 ELSE 10 * pow[e - 1]
        sum[i \in 0..Len(ds)] ==
            IF i = 0 THEN 0
            ELSE sum[i - 1] + DigitVal(ds[i]) * pow[Len(ds) - i]
    IN  sum[Len(ds)]

Succeeded == pc \in {"returned", "reassembled"} /\ ret.err = NilError

\* a line as the claims describe it: its index field is what precedes the
\* first ':', trimmed
ColonCount(line) == Cardinality({ i \in 1..Len(line) : line[i] = ":" })
TrimmedIndex(line) == TrimSpace(IndexField(line))
AllDigits(s) == \A i \in 1..Len(s) : IsDigit(s[i])

\* well formed: one ':' and an index field that is a non-empty string of digits
WellFormed(line) ==
    /\ ColonCount(line) = 1
    /\ TrimmedIndex(line) # << >>
    /\ AllDigits(TrimmedIndex(line))

Malformed(line) == ~WellFormed(line)

\* well-formed lines whose indices are 0..k-1 or 1..k, each once
CompleteSet(ls) ==
    /\ \A i \in 1..Len(ls) : WellFormed(ls[i])
    /\ LET at == { DecimalValue(TrimmedIndex(ls[i])) : i \in 1..Len(ls) }
       IN  /\ Cardinality(at) = Len(ls)
           /\ at = 0..(Len(ls) - 1) \/ at = 1..Len(ls)

\* the lines the decoder stores: one ':' and an index field of digits only
\* (the empty field counts as index 0)
Stored(line) == ColonCount(line) = 1 /\ AllDigits(TrimmedIndex(line))

NoSharedIndex(ls) ==
    \A i, j \in 1..Len(ls) :
        (i < j /\ Stored(ls[i]) /\ Stored(ls[j])) =>
            DecimalValue(TrimmedIndex(ls[i])) # DecimalValue(TrimmedIndex(ls[j]))

\* C6 as claimed: order independence: reassemble returns the same string for
\* every permutation of every list of lines, lines sharing an index included
C6_AnyOrder ==
    variant = "permuted" => txt = baseTxt

\* C6 as amended: reassemble returns the same string for every permutation of
\* every list of lines in which no two lines the decoder stores carry the
\* same index
C6_OrderIndependent ==
    (variant = "permuted" /\ NoSharedIndex(base)) => txt = baseTxt

C6_Witness ==
    /\ variant = "permuted"
    /\ base = << <<"0", "0", ":", "a">>, <<"a", "b">>, <<"0", "1", ":", "b">> >>
    /\ lines = << <<"0", "1", ":", "b">>, <<"a", "b">>, <<"0", "0", ":", "a">> >>
    /\ txt = <<"a", "b">>

\* C7: malformed-line tolerance: a malformed line (no ':', two or more ':', or
\* an index field that is not a non-empty string of digits) inserted anywhere
\* into a complete contiguous list of well-formed lines does not change what
\* reassemble returns
C7_MalformedIgnored ==
    (variant = "inserted" /\ CompleteSet(base) /\ Malformed(extra))
    => txt = baseTxt

C3_BudgetAtomic ==
    pc \in {"returned", "reassembled"} =>
        /\ c.maxSize \in 1..MaxSizeLimit
        /\ (ret.err = ErrInvalidInput) <=> (SumLens(result, 1, Len(result)) > c.maxSize)
        /\ ret.err = ErrInvalidInput => ret.lines = << >>
        /\ ret.err # ErrInvalidInput =>
               /\ ret.err = NilError
               /\ ret.lines = result
               /\ Concat(Chunks(ret.lines), 1, Len(ret.lines)) = jwt

C3_Witness ==
    /\ pc = "returned"
    /\ ret.err = ErrInvalidInput
    /\ Len(result) >= 2
    /\ ret.lines = << >>

\* C4 as claimed: missing-chunk detection: with any one frame of the record
\* lost, the first and the last included, reassemble returns the empty string
C4_AnyFrameLost ==
    (pc = "reassembled" /\ dropped # 0) => txt = << >>

\* C4 as amended: with one frame lost that is neither the first nor the last of
\* a record whose payload holds no ':', reassemble returns the empty string
C4_InnerFrameLost ==
    (/\ pc = "reassembled"
     /\ dropped \notin {0, 1, Len(ret.lines)}
     /\ ~HasColon(jwt))
    => txt = << >>

C4_Witness ==
    /\ pc = "reassembled"
    /\ Len(ret.lines) = 3
    /\ dropped = 2
    /\ ~HasColon(jwt)
    /\ txt = << >>

\* the bytes the frames before frame i (counted from 0) carry, when every one
\* of them is full: L - 3 up to index 99, L - 4 up to 999, L - 5 beyond
FrameOverhead(i) == IF i <= 99 THEN 3 ELSE IF i <= 999 THEN 4 ELSE 5

FrameOffset(i, L) ==
    IF i <= 100 THEN i * (L - 3)
    ELSE IF i <= 1000 THEN 100 * (L - 3) + (i - 100) * (L - 4)
    ELSE 100 * (L - 3) + 900 * (L - 4) + (i - 1000) * (L - 5)

\* C8: frame layout: when CreateRecord succeeds, frame i is the decimal index
\* i padded with zeros to at least two digits, ':' and chunk i; the chunks are
\* consecutive non-empty slices of the payload that concatenate to it; every
\* chunk but the last has maxLineLength - w bytes, w = 3, 4, 5 by the bracket
\* of i; an empty payload gives no frame and no error
C8_FrameLayout ==
    /\ Succeeded =>
          LET k == Len(ret.lines)
              L == c.maxLineLength
          IN  /\ \A i \in 0..(k - 1) :
                    LET line == ret.lines[i + 1]
                        field == IndexField(line)
                        chunk == ChunkOf(line)
                    IN  /\ FirstColon(line) > 0
                        /\ \A j \in 1..Len(field) : IsDigit(field[j])
                        /\ Len(field) >= 2
                        /\ Len(field) > 2 => field[1] # "0"
                        /\ DecimalValue(field) = i
                        /\ chunk # << >>
                        /\ i < k - 1 => Len(chunk) = L - FrameOverhead(i)
                        /\ chunk = SubSeq(jwt, FrameOffset(i, L) + 1,
                                          FrameOffset(i, L) + Len(chunk))
              /\ SumLens(Chunks(ret.lines), 1, k) = Len(jwt)
    /\ (pc \in {"returned", "reassembled"} /\ jwt = << >>) =>
          ret = [lines |-> << >>, err |-> NilError]

\* a payload that fills its last chunk exactly
C8_Witness ==
    /\ Succeeded
    /\ Len(ret.lines) = 2
    /\ c.maxLineLength = 4
    /\ Len(jwt) = 2

----------------------------------------------------------------------------
(* Properties of New and Fetch *)

\* the argument of the last option of the given name in os, d without one
RECURSIVE LastValue(_, _, _)

LastValue(os, name, d) ==
    IF os = << >> THEN d
    ELSE IF os[Len(os)].name = name THEN os[Len(os)].value
    ELSE LastValue(SubSeq(os, 1, Len(os) - 1), name, d)

\* C10: configuration validity after New: New returns a nil Fetcher and an
\* error wrapping ErrInvalidInput exactly when the fqdn after all options is
\* empty; otherwise the Fetcher has that non-empty fqdn, a non-nil resolver
\* (the default one when none or nil was given) and a non-zero timeout (30s
\* when unset or 0, else the given value; a negative one attaches no deadline)
C10_ConfigValid ==
    npc = "returned" =>
        LET fqdn == LastValue(newOpts, "WithFQDN", "")
            resolver == LastValue(newOpts, "WithResolver", NilResolver)
            timeout == LastValue(newOpts, "WithTimeout", 0)
            f == newRet.fetcher
        IN  IF fqdn = ""
            THEN /\ f = NilFetcher
                 /\ newRet.err # NilError
                 /\ ErrorsIs(newRet.err, ErrInvalidInput)
            ELSE /\ newRet.err = NilError
                 /\ f # NilFetcher
                 /\ f.fqdn = fqdn
                 /\ f.resolver # NilResolver
                 /\ f.resolver = IF resolver = NilResolver THEN DefaultResolver
                                  ELSE resolver
                 /\ f.timeout # 0
                 /\ f.timeout = IF timeout = 0 THEN DefaultTimeout ELSE timeout
                 /\ HasDeadline(f) <=> timeout >= 0

\* New is given a nil option, a zero timeout and a nil resolver after an fqdn
C10_Witness ==
    /\ npc = "returned"
    /\ newOpts = <<WithFQDN("fqdn.example.org"), NilFetcherOption, WithTimeout(0)>>
    /\ newRet.err = NilError
    /\ newRet.fetcher.timeout = DefaultTimeout
    /\ newRet.fetcher.resolver = DefaultResolver

\* the deadline of the derived context elapsed
Elapsed == ctx.derived /\ ctx.err = DeadlineExceeded

\* Fetch returned the deadline error, or the error the resolver returned
TimedOut ==
    /\ out.token = "nil"
    /\ out.payload = "nil"
    /\ \/ out.err = DeadlineExceeded
       \/ gpc = "done" /\ answer.err # NilError /\ out.err = answer.err

\* C5 as stated: with a positive timeout Fetch returns once the deadline
\* elapses, and when LookupTXT never returned or returned only after the
\* deadline, what Fetch returns is a nil token, a nil payload and the
\* deadline error or the error of the resolver
C5_BoundedWait ==
    /\ (fpc = "select" /\ r.timeout > 0) ~> (fpc = "returned")
    /\ []((fpc = "returned" /\ r.timeout > 0 /\ Elapsed /\ ~early) => TimedOut)

\* LookupTXT handed lines to its caller
LinesDelivered == gpc \in {"sendTxt", "done"} /\ answer.err = NilError

\* C5 as amended: with a positive timeout Fetch returns once the deadline
\* elapses, whatever the resolver does; when LookupTXT never returned, or
\* returned an error only after the deadline, what Fetch returns is a nil
\* token, a nil payload and the deadline error or the error of the resolver
C5_BoundedWaitNoLines ==
    /\ (fpc = "select" /\ r.timeout > 0) ~> (fpc = "returned")
    /\ []((fpc = "returned" /\ r.timeout > 0 /\ Elapsed /\ ~early
             /\ ~LinesDelivered) => TimedOut)

\* Fetch returned the deadline error while LookupTXT is still running
C5_Witness ==
    /\ fpc = "returned"
    /\ r.timeout > 0
    /\ Elapsed
    /\ gpc = "lookup"
    /\ out = [NilResult EXCEPT !.err = DeadlineExceeded]

\* what holds in every state of a Fetch call for C9
TerminalFailures ==
    /\ lookups <= 1
    /\ gpc \in {"lookup", "sendTxt", "sendErr", "done"} => lookups = 1
    /\ fpc = "returned" =>
          /\ \/ out.token # "nil" /\ out.err = NilError
             \/ out.token = "nil" /\ out.payload = "nil" /\ out.err # NilError
          /\ \/ /\ stages = {}
                /\ out.token = "nil"
                /\ \/ out.err = ctx.err
                   \/ gpc = "done" /\ out.err = answer.err
                /\ out.err \in {Canceled, DeadlineExceeded, ErrResolver}
             \/ /\ {"reassemble", "jwt.Parse"} \subseteq stages
                /\ gpc = "done"
                /\ answer.err = NilError
                /\ ftxt = reassemble(answer.lines)
          /\ ("rejected" \in stages \/ (ftxt = << >> /\ stages # {})) =>
                /\ out.token = "nil"
                /\ ErrorsIs(out.err, ErrInvalidJWT)

\* C9: terminal failures of Fetch: every call returns a token, a payload and
\* no error, or a nil token, a nil payload and an error; an error of the
\* resolver or of the context is returned as it is, without reassembly and
\* without the parser; an empty reassembled string or a rejection by the
\* parser gives an error that matches ErrInvalidJWT; LookupTXT is called once
\* per call of Fetch, never a second time
C9_TerminalFailures ==
    /\ []TerminalFailures
    /\ (fpc = "select") ~> (lookups = 1)

\* the lines reassembled to the empty string and the parser rejected it
C9_Witness ==
    /\ fpc = "returned"
    /\ answer.lines # << >>
    /\ ftxt = << >>
    /\ stages = {"reassemble", "jwt.Parse", "rejected"}
    /\ out.err = ErrorsJoin(ErrParse, ErrInvalidJWT)
    /\ lookups = 1

\* the step in which the select of fetch takes the case <-ctx.Done()
CancellationBranch ==
    /\ ctx.err # NilError
    /\ fpc' = "returned"
    /\ gpc' = gpc
    /\ out' = [NilResult EXCEPT !.err = ctx.err]

\* the goroutine is at its send on txtChan or errChan
SendReady == gpc \in {"sendTxt", "sendErr"}

\* C12 as stated: cancellation wins the race: when the context of the caller
\* is cancelled, before fetch starts or while it waits, fetch returns, and it
\* returns through the cancellation branch with the error of the context,
\* whatever the resolver does, also when lines or an error are delivered at
\* the same moment
C12_CancellationWins ==
    /\ [][(fpc = "select" /\ parentErr # NilError /\ fpc' # "select")
             => CancellationBranch]_vars
    /\ (fpc = "select" /\ parentErr # NilError) ~> (fpc # "select")

\* C12 as amended: when the context of the caller is cancelled, before fetch
\* starts or while it waits, fetch returns; it returns through the
\* cancellation branch with the error of the context when the goroutine is
\* not at its send at that moment
C12_CancellationWinsUnlessSent ==
    /\ [][(fpc = "select" /\ parentErr # NilError /\ ~SendReady
             /\ fpc' # "select") => CancellationBranch]_vars
    /\ (fpc = "select" /\ parentErr # NilError) ~> (fpc # "select")

\* the caller cancelled while LookupTXT was running and Fetch returned
C12_Witness ==
    /\ fpc = "returned"
    /\ parentErr = Canceled
    /\ ctx.derived
    /\ gpc = "lookup"
    /\ lookups = 1
    /\ out = [NilResult EXCEPT !.err = Canceled]

\* C13: encoder termination: for every payload and every maxLineLength in
\* 1..254 the loop of split ends without a runtime fault: no iteration
\* faults, and each one takes at least one byte off the remaining payload
C13_EncoderTerminates ==
    [][pc = "split" =>
          /\ pc' # "panic"
          /\ idx' # idx => Len(buf') < Len(buf)]_vars

\* C14: lookup task completion: once LookupTXT has returned, the goroutine
\* fetch started ends; it is not left blocked for ever at its send on txtChan
\* or errChan, also when fetch has returned through the case <-ctx.Done()
C14_TaskCompletes == SendReady ~> (gpc = "done")

====
